---- MODULE Spec2Model ----
(***************************************************************************)
(* Model of AxisCameraUpload: the request handler of an HTTP server that   *)
(* stores JPEG images pushed by network cameras                            *)
(* (src/src/AxisCameraUpload.cpp, class ImageUploadRequestHandler).        *)
(*                                                                         *)
(* A string is a sequence of lexemes.  A lexeme is either one of the       *)
(* delimiter characters the parsers look at ("/", "?", "&", "="), one of   *)
(* the special names "." and "..", a percent escape ("%2F" is an encoded   *)
(* "/", "%zz" is an escape that is no hexadecimal number), a decimal digit,*)
(* or a run of ordinary characters that no parser splits ("site1").        *)
(***************************************************************************)
EXTENDS Integers, Sequences, FiniteSets, TLC

(***************************************************************************)
(* Bounds of the model.                                                    *)
(***************************************************************************)
\* longest request body, in bytes
MaxBody == 1
\* number of uploads a behaviour stores (requests that are answered without
\* a call of storeImage are not counted)
MaxUploads == 1

\* the number of lexemes of the request URIs that SpecSegments goes through
MaxUriLen == 6

(***************************************************************************)
(* Sequences and strings.                                                  *)
(***************************************************************************)
\* index of the first element of s that is in set D, or Len(s)+1
RECURSIVE FirstIn(_, _, _)
FirstIn(s, D, i) ==
    IF i > Len(s) THEN Len(s) + 1
    ELSE IF s[i] \in D THEN i
    ELSE FirstIn(s, D, i + 1)

\* the part of s before index i, and the part after index i
Before(s, i) == SubSeq(s, 1, i - 1)
After(s, i) == SubSeq(s, i + 1, Len(s))

\* s split at every lexeme in D: a sequence of Len(separators)+1 strings
RECURSIVE SplitOn(_, _)
SplitOn(s, D) ==
    LET i == FirstIn(s, D, 1) IN
    IF i > Len(s) THEN <<s>>
    ELSE <<Before(s, i)>> \o SplitOn(After(s, i), D)

(***************************************************************************)
(* Poco::URI: the constructor called on request.getURI() at lines 100 and  *)
(* 132.  The path ends at the first "?"; it is percent-decoded; the query  *)
(* is kept raw.  A percent escape that is no hexadecimal number makes the  *)
(* constructor throw URISyntaxException, a Poco::Exception.                *)
(***************************************************************************)
BadEscape == "%zz"

\* URI::decode of one lexeme
DecodeLexeme(c) == IF c = "%2F" THEN "/" ELSE c

\* URI::decode of a string (defined when the string holds no bad escape)
URIDecode(s) == [i \in 1..Len(s) |-> DecodeLexeme(s[i])]

HasBadEscape(s) == \E i \in 1..Len(s) : s[i] = BadEscape

\* the undecoded path and the raw query of a request URI
RawPath(uri) == Before(uri, FirstIn(uri, {"?"}, 1))
RawQuery(uri) == After(uri, FirstIn(uri, {"?"}, 1))

\* whether Poco::URI uri(request.getURI()) throws
URIThrows(uri) == HasBadEscape(RawPath(uri))

\* uri.getPath(): the decoded path
URIGetPath(uri) == URIDecode(RawPath(uri))

(***************************************************************************)
(* Poco::Net::HTMLForm::read(query) and get("token", "") (lines 101-103).  *)
(* The query is split at "&"; in each field the name ends at the first     *)
(* "=", the value is the rest; both are percent-decoded, which throws on a *)
(* bad escape.  get returns the value of the first field with that name,   *)
(* or the default.                                                         *)
(***************************************************************************)
FormFields(query) ==
    IF query = <<>> THEN <<>>
    ELSE LET raw == SplitOn(query, {"&"}) IN
         [i \in 1..Len(raw) |->
            LET eq == FirstIn(raw[i], {"="}, 1) IN
            [name |-> URIDecode(Before(raw[i], eq)),
             value |-> URIDecode(After(raw[i], eq))]]

FormThrows(query) == HasBadEscape(query)

RECURSIVE FormGetFrom(_, _, _, _)
FormGetFrom(fields, name, default, i) ==
    IF i > Len(fields) THEN default
    ELSE IF fields[i].name = name THEN fields[i].value
    ELSE FormGetFrom(fields, name, default, i + 1)

FormGet(fields, name, default) == FormGetFrom(fields, name, default, 1)

(***************************************************************************)
(* Poco::Path (PATH_UNIX): a path is a flag (absolute), a list of          *)
(* directory names and a file name.                                        *)
(***************************************************************************)
\* Path::pushDirectory(dir): "" and "." are dropped; ".." removes the last
\* directory, or is kept when there is none to remove and the path is relative
PushDirectory(p, dir) ==
    IF dir = <<>> \/ dir = <<".">> THEN p
    ELSE IF dir = <<"..">>
         THEN IF p.dirs # <<>> /\ p.dirs[Len(p.dirs)] # <<"..">>
              THEN [p EXCEPT !.dirs = SubSeq(p.dirs, 1, Len(p.dirs) - 1)]
              ELSE IF ~p.absolute
                   THEN [p EXCEPT !.dirs = Append(p.dirs, dir)]
                   ELSE p
    ELSE [p EXCEPT !.dirs = Append(p.dirs, dir)]

RECURSIVE PushAll(_, _)
PushAll(p, names) ==
    IF names = <<>> THEN p
    ELSE PushAll(PushDirectory(p, Head(names)), Tail(names))

\* Path::parseUnix: a leading "/" makes the path absolute; every component
\* followed by a "/" is pushed as a directory; what follows the last "/" is
\* the file name, taken as it is
ParseUnix(s) ==
    LET abs == s # <<>> /\ s[1] = "/"
        rest == IF abs THEN Tail(s) ELSE s
        parts == SplitOn(rest, {"/"})
        n == Len(parts)
    IN  [PushAll([absolute |-> abs, dirs |-> <<>>, name |-> <<>>],
                 SubSeq(parts, 1, n - 1))
            EXCEPT !.name = parts[n]]

\* Path::makeDirectory: the file name becomes the last directory
MakeDirectory(p) == [PushDirectory(p, p.name) EXCEPT !.name = <<>>]

\* Path::depth
Depth(p) == Len(p.dirs)

\* Path::operator[](n), n counted from 0: the n-th directory, or the file
\* name when n = depth
PathAt(p, n) == IF n < Len(p.dirs) THEN p.dirs[n + 1] ELSE p.name

(***************************************************************************)
(* Poco::NumberFormatter and Poco::DateTimeFormatter (lines 114-117, 122). *)
(***************************************************************************)
Digit(d) == <<"0", "1", "2", "3", "4", "5", "6", "7", "8", "9">>[d + 1]

\* NumberFormatter::format(n): the decimal digits of n, no padding
RECURSIVE Format(_)
Format(n) == IF n < 10 THEN <<Digit(n)>> ELSE Format(n \div 10) \o <<Digit(n % 10)>>

\* NumberFormatter::format0(n, width): padded with zeros on the left
RECURSIVE PadLeft(_, _)
PadLeft(s, width) == IF Len(s) >= width THEN s ELSE PadLeft(<<"0">> \o s, width)

\* a plausible slip: format in place of format0
Format0Unpadded(n, width) == Format(n)

Format0(n, width) == PadLeft(Format(n), width)

\* a plausible slip: the format lacks the seconds, "%Y%m%d-%H%M-%F.jpg"
FormatFileNameToTheMinute(t) ==
    Format0(t.year, 4) \o Format0(t.month, 2) \o Format0(t.day, 2) \o <<"-">>
    \o Format0(t.hour, 2) \o Format0(t.minute, 2) \o <<"-">>
    \o Format0(t.fraction, 6) \o <<".jpg">>

\* DateTimeFormatter::format(now, "%Y%m%d-%H%M%S-%F.jpg")
FormatFileName(t) ==
    Format0(t.year, 4) \o Format0(t.month, 2) \o Format0(t.day, 2) \o <<"-">>
    \o Format0(t.hour, 2) \o Format0(t.minute, 2) \o Format0(t.second, 2) \o <<"-">>
    \o Format0(t.fraction, 6) \o <<".jpg">>

(***************************************************************************)
(* The wall clock: Poco::LocalDateTime now (line 113) reads the instant    *)
(* the clock is at.  In a run of the server the clock steps through        *)
(* Instants in order.                                                      *)
(***************************************************************************)
DateTime(y, mo, d, h, mi, s, f) ==
    [year |-> y, month |-> mo, day |-> d, hour |-> h,
     minute |-> mi, second |-> s, fraction |-> f]

\* the last two seconds of a year and the first of the next: the first two
\* differ in the second only; between the last two the hour, the day, the
\* month and the year change
Instants ==
    << DateTime(2024, 12, 31, 23, 59, 58, 500000),
       DateTime(2024, 12, 31, 23, 59, 59, 500000),
       DateTime(2025, 1, 1, 0, 0, 0, 0) >>

(***************************************************************************)
(* uploadSite and uploadCamera (lines 130-157).                            *)
(***************************************************************************)
\* uploadSite: the path of the parsed URI, decoded, as a directory
\* (defined when the URI constructor does not throw)
uploadSite(uri) ==
    LET p == MakeDirectory(ParseUnix(URIGetPath(uri))) IN
    IF Depth(p) >= 2 THEN PathAt(p, 1) ELSE <<"defaultSite">>

\* uploadCamera: the whole request URI, as it came, as a directory
uploadCamera(uri) ==
    LET p == MakeDirectory(ParseUnix(uri)) IN
    IF Depth(p) >= 3 THEN PathAt(p, 2) ELSE <<"defaultCamera">>

(***************************************************************************)
(* Configuration: upload.path (line 56) and upload.token (line 52).        *)
(***************************************************************************)
\* config.getString("upload.path", ...), as the string Poco::Path parses
UploadPath == <<"/", "srv", "/", "images">>

\* the tokens a deployment may configure; "" is the default
ConfigTokens == { <<>>, <<"s3cret">> }

\* storeImage, lines 108-117: the directory of the upload received at instant t
TargetDirectory(uploadPath, uri, t) ==
    PushAll(MakeDirectory(ParseUnix(uploadPath)),
            << uploadSite(uri), uploadCamera(uri),
               Format(t.year), Format0(t.month, 2),
               Format0(t.day, 2), Format0(t.hour, 2) >>)

(***************************************************************************)
(* The file system, as Poco::File and Poco::FileOutputStream see it: the   *)
(* set of directories and the regular files with their lengths.  A path is *)
(* the sequence of its names from the root; the root always exists.        *)
(***************************************************************************)
Parent(d) == SubSeq(d, 1, Len(d) - 1)

IsDirectory(dirs, d) == d = <<>> \/ d \in dirs
IsFile(files, f) == f \in DOMAIN files
Exists(dirs, files, d) == IsDirectory(dirs, d) \/ IsFile(files, d)

\* File::createDirectories (line 120): nothing is done for a path that exists
\* (as a directory or as a file); else the parent is created first, then
\* mkdir is called.  mkdir fails when the parent is no directory, or for a
\* reason of the system (permission denied, disk full): mkdirOK = FALSE.
\* The result is whether the call returned (or threw) and the directories.
RECURSIVE createDirectories(_, _, _, _)

\* a plausible slip: no test whether the path exists, so that mkdir is
\* called for a directory that is there and fails
createDirectoriesWithoutExistsTest(dirs, files, d, mkdirOK) ==
    LET up == IF Len(d) > 1
              THEN createDirectories(dirs, files, Parent(d), mkdirOK)
              ELSE [ok |-> TRUE, dirs |-> dirs]
    IN  IF ~up.ok THEN up
        ELSE IF mkdirOK /\ IsDirectory(up.dirs, Parent(d)) /\ ~Exists(up.dirs, files, d)
             THEN [ok |-> TRUE, dirs |-> up.dirs \cup {d}]
             ELSE [ok |-> FALSE, dirs |-> up.dirs]

createDirectories(dirs, files, d, mkdirOK) ==
    IF Exists(dirs, files, d) THEN [ok |-> TRUE, dirs |-> dirs]
    ELSE LET up == IF Len(d) > 1
                   THEN createDirectories(dirs, files, Parent(d), mkdirOK)
                   ELSE [ok |-> TRUE, dirs |-> dirs]
         IN  IF ~up.ok THEN up
             ELSE IF mkdirOK /\ IsDirectory(up.dirs, Parent(d))
                  THEN [ok |-> TRUE, dirs |-> up.dirs \cup {d}]
                  ELSE [ok |-> FALSE, dirs |-> up.dirs]

\* Poco::FileOutputStream(path) (line 124): open(2) with O_CREAT | O_TRUNC.
\* It fails when the directory of the file is no directory, when the path
\* is a directory, or for a reason of the system: openOK = FALSE.
CanOpen(dirs, f, openOK) ==
    openOK /\ IsDirectory(dirs, Parent(f)) /\ ~IsDirectory(dirs, f)

\* the files after path f was set to hold n bytes
WithFile(files, f, n) ==
    [x \in DOMAIN files \cup {f} |-> IF x = f THEN n ELSE files[x]]

(***************************************************************************)
(* Requests.                                                               *)
(***************************************************************************)
Workers == {"w1", "w2"}

Methods == {"POST", "GET", "HEAD", "PUT"}

ContentTypes == {"image/jpeg", "IMAGE/JPEG", "image/jpeg; charset=binary", "text/plain"}

\* the paths and the queries of the request URIs
UriPaths ==
    { <<"/">>,
      <<"/", "site1", "/", "cam7">>,
      <<"/", "site1", "/", "cam7", "/", "x">>,
      <<"/", "site1", "/", "%zz">> }

UriQueries ==
    { <<>>,
      <<"?", "token", "=", "s3cret">>,
      <<"?", "token", "=", "guess">>,
      <<"?", "x", "=", "1", "&", "token", "=", "s3cret">> }

RequestURIs == { path \o query : path \in UriPaths, query \in UriQueries }

(***************************************************************************)
(* State.                                                                  *)
(***************************************************************************)
VARIABLES
    h,            \* h[w]: the request worker w handles and where it is in handleRequest
    fsDirs,       \* the directories of the file system
    fsFiles,      \* the regular files of the file system: path -> length
    clock,        \* the present instant, as Poco::LocalDateTime reads it
    uploadToken,  \* the configured upload.token
    uploads       \* the number of calls of storeImage so far

vars == <<h, fsDirs, fsFiles, clock, uploadToken, uploads>>

NoPath == [absolute |-> FALSE, dirs |-> <<>>, name |-> <<>>]

\* a worker that handles no request
Idle ==
    [pc |-> "idle", method |-> "", uri |-> <<>>, ctype |-> "",
     body |-> 0,        \* length of the request body
     unread |-> 0,      \* bytes of the body not yet read from request.stream()
     gone |-> FALSE,    \* the client disconnected: the stream delivers no more
     sent |-> 0,        \* number of times a response was sent
     status |-> 0, message |-> "",
     nextStatus |-> 0, nextMessage |-> "",  \* arguments of the sendResponse to come
     authCalls |-> 0,   \* number of calls of authorize
     auth |-> "none",   \* what authorize returned: "accept" or "reject"
     stores |-> 0,      \* number of calls of storeImage
     fault |-> "none",  \* what failed while storing
     site |-> <<>>,     \* what uploadSite returned (line 110)
     camera |-> <<>>,   \* what uploadCamera returned (line 111)
     p |-> NoPath,      \* storeImage's Poco::Path p
     t |-> 0,           \* storeImage's now, once it is read
     open |-> FALSE,    \* storeImage's fileStream is open
     logs |-> {}]       \* the log lines written

HTTP_OK == 200
HTTP_BAD_REQUEST == 400
HTTP_METHOD_NOT_ALLOWED == 405
HTTP_INTERNAL_SERVER_ERROR == 500

\* the file systems a server may start on: the upload directory exists;
\* a regular file may lie where a site directory would go
BaseDirs == { <<<<"srv">>>>, <<<<"srv">>, <<"images">>>> }
InitialFiles ==
    { [f \in {} |-> 0],
      [f \in { <<<<"srv">>, <<"images">>, <<"cam7">>>> } |-> 0] }

Init ==
    /\ h = [w \in Workers |-> Idle]
    /\ fsDirs = BaseDirs
    /\ fsFiles \in InitialFiles
    /\ clock = Instants[Len(Instants) - 1]  \* the requests of Spec span the year's turn
    /\ uploadToken \in ConfigTokens
    /\ uploads = 0

(***************************************************************************)
(* sendResponse (lines 165-183) and response.send() (line 80).             *)
(* sendBuffer writes through a std::ostream, which keeps a failure of the  *)
(* socket as its bad state: the call returns, and response.sent() is true  *)
(* from then on.                                                           *)
(***************************************************************************)
sendResponse(r, status, message) ==
    [r EXCEPT !.sent = @ + 1, !.status = status, !.message = message]

\* response.send(): the header with the status as it is, no body
send(r) == [r EXCEPT !.sent = @ + 1, !.message = ""]

\* a Poco::Exception leaves the try block (line 88)
throw(r) == [r EXCEPT !.pc = "catch"]

(***************************************************************************)
(* authorize (lines 98-104).                                               *)
(***************************************************************************)
\* whether authorize throws: the URI constructor or HTMLForm::read does
authorizeThrows(uri) == URIThrows(uri) \/ FormThrows(RawQuery(uri))

\* a plausible slip: an empty configured token switches the check off
authorizeOpenByDefault(uri, token) ==
    token = <<>> \/ FormGet(FormFields(RawQuery(uri)), <<"token">>, <<>>) = token

authorize(uri, token) ==
    FormGet(FormFields(RawQuery(uri)), <<"token">>, <<>>) = token

\* a plausible slip: the content type is not looked at
contentTypeUnchecked(ctype) == TRUE

\* line 54
contentTypeAccepted(ctype) == ctype = "image/jpeg"

(***************************************************************************)
(* The server loop hands a request to a new handler (lines 190-204).       *)
(***************************************************************************)
\* the request is one that handleRequest passes to storeImage
WillStore(method, uri, ctype) ==
    /\ method = "POST"
    /\ ~authorizeThrows(uri)
    /\ authorize(uri, uploadToken)
    /\ contentTypeAccepted(ctype)

Receive(w) ==
    /\ h[w].pc = "idle"
    /\ \E method \in Methods, uri \in RequestURIs, ctype \in ContentTypes,
          len \in 0..MaxBody :
          /\ WillStore(method, uri, ctype) => uploads < MaxUploads
          /\ h' = [h EXCEPT ![w] =
                  [Idle EXCEPT !.pc = "dispatch", !.method = method, !.uri = uri,
                               !.ctype = ctype, !.body = len, !.unread = len,
                               !.status = HTTP_OK]]
    /\ UNCHANGED <<fsDirs, fsFiles, clock, uploadToken, uploads>>

(***************************************************************************)
(* handleRequest (lines 43-96), one action per call it makes.              *)
(***************************************************************************)
\* a plausible slip: the branch for HEAD is missing
dispatchedWithoutHead(r) ==
    IF r.method = "POST" THEN [r EXCEPT !.pc = "authorize"]
    ELSE IF r.method = "GET"
         THEN [sendResponse(r, HTTP_OK, "Image upload server ready")
                  EXCEPT !.pc = "returned"]
    ELSE [sendResponse(r, HTTP_METHOD_NOT_ALLOWED, "Request method not allowed")
             EXCEPT !.pc = "returned"]

\* lines 50, 74-86: the dispatch on the method
dispatched(r) ==
    IF r.method = "POST" THEN [r EXCEPT !.pc = "authorize"]
    ELSE IF r.method = "GET"
         THEN [sendResponse(r, HTTP_OK, "Image upload server ready")
                  EXCEPT !.pc = "returned"]
    ELSE IF r.method = "HEAD" THEN [send(r) EXCEPT !.pc = "returned"]
    ELSE [sendResponse(r, HTTP_METHOD_NOT_ALLOWED, "Request method not allowed")
             EXCEPT !.pc = "returned"]

Dispatch(w) ==
    /\ h[w].pc = "dispatch"
    /\ h' = [h EXCEPT ![w] = dispatched(@)]
    /\ UNCHANGED <<fsDirs, fsFiles, clock, uploadToken, uploads>>

\* lines 52, 54: authorize, then the test of the content type
Authorize(w) ==
    /\ h[w].pc = "authorize"
    /\ h' = [h EXCEPT ![w] =
          IF authorizeThrows(@.uri) THEN throw([@ EXCEPT !.authCalls = @ + 1])
          ELSE LET ok == authorize(@.uri, uploadToken) IN
               [@ EXCEPT !.authCalls = @ + 1,
                         !.auth = IF ok THEN "accept" ELSE "reject",
                         !.pc = IF ~ok THEN "warnToken"
                                ELSE IF contentTypeAccepted(h[w].ctype) THEN "store"
                                ELSE "warnType"]]
    /\ UNCHANGED <<fsDirs, fsFiles, clock, uploadToken, uploads>>

\* lines 62 and 69: the warning line; the logger's channel may throw
Warn(w) ==
    /\ h[w].pc \in {"warnToken", "warnType"}
    /\ \E logOK \in BOOLEAN :
          h' = [h EXCEPT ![w] =
                  IF ~logOK THEN throw(@)
                  ELSE [@ EXCEPT !.pc = "drain",
                                 !.logs = @ \cup {h[w].pc},
                                 !.nextStatus = HTTP_BAD_REQUEST,
                                 !.nextMessage =
                                     IF h[w].pc = "warnToken"
                                     THEN "Missing or invalid upload token"
                                     ELSE "Unexpected content type"]]
    /\ UNCHANGED <<fsDirs, fsFiles, clock, uploadToken, uploads>>

\* lines 63 and 70, ignoreContent (159-163): copyStream reads the stream to
\* its end; when the client disconnects the stream ends early, in its bad
\* state, and copyStream returns
Drain(w) ==
    /\ h[w].pc = "drain"
    /\ \E n \in 0..h[w].unread :
          h' = [h EXCEPT ![w] = [@ EXCEPT !.pc = "send",
                                          !.unread = @ - n,
                                          !.gone = n < h[w].unread]]
    /\ UNCHANGED <<fsDirs, fsFiles, clock, uploadToken, uploads>>

\* lines 58, 64, 71: return sendResponse(...)
Send(w) ==
    /\ h[w].pc = "send"
    /\ h' = [h EXCEPT ![w] =
                [sendResponse(@, @.nextStatus, @.nextMessage) EXCEPT !.pc = "returned"]]
    /\ UNCHANGED <<fsDirs, fsFiles, clock, uploadToken, uploads>>

(***************************************************************************)
(* storeImage (lines 106-128), one action per call that touches the file   *)
(* system or the request stream.                                           *)
(***************************************************************************)
\* p.toString() of a path with a file name, as the file system names it
FilePath(p) == Append(p.dirs, p.name)

\* lines 108-117: the clock is read once and the directory is put together
Store(w) ==
    /\ h[w].pc = "store"
    /\ h' = [h EXCEPT ![w] =
          IF URIThrows(@.uri) THEN throw([@ EXCEPT !.stores = @ + 1])
          ELSE [@ EXCEPT !.pc = "mkdir", !.stores = @ + 1, !.t = clock,
                         !.site = uploadSite(h[w].uri),
                         !.camera = uploadCamera(h[w].uri),
                         !.p = TargetDirectory(UploadPath, h[w].uri, clock)]]
    /\ uploads' = uploads + 1
    /\ UNCHANGED <<fsDirs, fsFiles, clock, uploadToken>>

\* lines 119-120: dir.createDirectories()
Mkdir(w) ==
    /\ h[w].pc = "mkdir"
    /\ \E mkdirOK \in BOOLEAN :
          LET made == createDirectories(fsDirs, fsFiles, h[w].p.dirs, mkdirOK) IN
          /\ fsDirs' = made.dirs
          /\ h' = [h EXCEPT ![w] =
                IF made.ok THEN [@ EXCEPT !.pc = "open"]
                ELSE throw([@ EXCEPT !.fault = "mkdir"])]
    /\ UNCHANGED <<fsFiles, clock, uploadToken, uploads>>

\* a plausible slip: the file is opened for exclusive creation, so that a
\* path that is there already makes the constructor throw
OpenExclusive(w) ==
    /\ h[w].pc = "open"
    /\ \E openOK \in BOOLEAN :
          LET q == [h[w].p EXCEPT !.name = FormatFileName(h[w].t)] IN
          IF CanOpen(fsDirs, FilePath(q), openOK) /\ ~IsFile(fsFiles, FilePath(q))
          THEN /\ fsFiles' = WithFile(fsFiles, FilePath(q), 0)
               /\ h' = [h EXCEPT ![w] = [@ EXCEPT !.pc = "copy", !.p = q, !.open = TRUE]]
          ELSE /\ fsFiles' = fsFiles
               /\ h' = [h EXCEPT ![w] = throw([@ EXCEPT !.p = q, !.fault = "open"])]
    /\ UNCHANGED <<fsDirs, clock, uploadToken, uploads>>

\* a plausible slip: the file name is made of a second reading of the clock
OpenReadingClockAgain(w) ==
    /\ h[w].pc = "open"
    /\ \E openOK \in BOOLEAN :
          LET q == [h[w].p EXCEPT !.name = FormatFileName(clock)] IN
          IF CanOpen(fsDirs, FilePath(q), openOK)
          THEN /\ fsFiles' = WithFile(fsFiles, FilePath(q), 0)
               /\ h' = [h EXCEPT ![w] = [@ EXCEPT !.pc = "copy", !.p = q, !.open = TRUE]]
          ELSE /\ fsFiles' = fsFiles
               /\ h' = [h EXCEPT ![w] = throw([@ EXCEPT !.p = q, !.fault = "open"])]
    /\ UNCHANGED <<fsDirs, clock, uploadToken, uploads>>

\* lines 122-124: p.setFileName(...); Poco::FileOutputStream fileStream(p.toString())
Open(w) ==
    /\ h[w].pc = "open"
    /\ \E openOK \in BOOLEAN :
          LET q == [h[w].p EXCEPT !.name = FormatFileName(h[w].t)] IN
          IF CanOpen(fsDirs, FilePath(q), openOK)
          THEN /\ fsFiles' = WithFile(fsFiles, FilePath(q), 0)
               /\ h' = [h EXCEPT ![w] = [@ EXCEPT !.pc = "copy", !.p = q, !.open = TRUE]]
          ELSE /\ fsFiles' = fsFiles
               /\ h' = [h EXCEPT ![w] = throw([@ EXCEPT !.p = q, !.fault = "open"])]
    /\ UNCHANGED <<fsDirs, clock, uploadToken, uploads>>

\* line 125: Poco::StreamCopier::copyStream(request.stream(), fileStream).
\* n bytes are read and m of them reach the file.  A failed write (m < n)
\* and a stream that ends early because the client disconnected (n less than
\* what is unread) leave the std::ostream resp. std::istream in its bad
\* state, which ends the copy loop: copyStream returns, it does not throw.
Copy(w) ==
    /\ h[w].pc = "copy"
    /\ \E n \in 0..h[w].unread : \E m \in 0..n :
          /\ fsFiles' = WithFile(fsFiles, FilePath(h[w].p), m)
          /\ h' = [h EXCEPT ![w] =
                [@ EXCEPT !.pc = "close",
                          !.unread = @ - n,
                          !.gone = m = n /\ n < h[w].unread,
                          !.fault = IF m < n THEN "write"
                                    ELSE IF n < h[w].unread THEN "disconnect"
                                    ELSE "none"]]
    /\ UNCHANGED <<fsDirs, clock, uploadToken, uploads>>

\* lines 127-128: return p.toString(); fileStream is destroyed, which closes it
Close(w) ==
    /\ h[w].pc = "close"
    /\ h' = [h EXCEPT ![w] = [@ EXCEPT !.pc = "logStored", !.open = FALSE]]
    /\ UNCHANGED <<fsDirs, fsFiles, clock, uploadToken, uploads>>

\* line 57: the line that names the stored path; the logger's channel may throw
LogStored(w) ==
    /\ h[w].pc = "logStored"
    /\ \E logOK \in BOOLEAN :
          h' = [h EXCEPT ![w] =
                  IF ~logOK THEN throw(@)
                  ELSE [@ EXCEPT !.pc = "send", !.logs = @ \cup {"stored"},
                                 !.nextStatus = HTTP_OK,
                                 !.nextMessage = "Image accepted"]]
    /\ UNCHANGED <<fsDirs, fsFiles, clock, uploadToken, uploads>>

\* lines 88-95: the handler of Poco::Exception.  When the logger's channel
\* throws in it, the exception leaves handleRequest.
Catch(w) ==
    /\ h[w].pc = "catch"
    /\ \E logOK \in BOOLEAN :
          h' = [h EXCEPT ![w] =
                  IF ~logOK THEN [@ EXCEPT !.pc = "escaped"]
                  ELSE LET logged == [@ EXCEPT !.logs = @ \cup {"exception"}] IN
                       IF logged.sent = 0
                       THEN [sendResponse(logged, HTTP_INTERNAL_SERVER_ERROR,
                                          "error uploading file")
                                EXCEPT !.pc = "returned"]
                       ELSE [logged EXCEPT !.pc = "returned"]]
    /\ UNCHANGED <<fsDirs, fsFiles, clock, uploadToken, uploads>>

\* handleRequest is over: the handler is destroyed
Finish(w) ==
    /\ h[w].pc \in {"returned", "escaped"}
    /\ h' = [h EXCEPT ![w] = Idle]
    /\ UNCHANGED <<fsDirs, fsFiles, clock, uploadToken, uploads>>

\* time passes
Tick ==
    /\ \E i \in 1..(Len(Instants) - 1) : clock = Instants[i] /\ clock' = Instants[i + 1]
    /\ UNCHANGED <<h, fsDirs, fsFiles, uploadToken, uploads>>

Handle(w) ==
    \/ Dispatch(w) \/ Authorize(w) \/ Warn(w) \/ Drain(w) \/ Send(w)
    \/ Store(w) \/ Mkdir(w) \/ Open(w) \/ Copy(w) \/ Close(w) \/ LogStored(w)
    \/ Catch(w) \/ Finish(w)

(***************************************************************************)
(* Spec: the requests of one connection, handled one after the other.      *)
(***************************************************************************)
Next == Tick \/ Receive("w1") \/ Handle("w1")

Spec == Init /\ [][Next]_vars

(***************************************************************************)
(* SpecConcurrent: two connections, each with a handler of its own in a    *)
(* thread of its own (Poco::Net::HTTPServer, lines 190-204 and 261-263):   *)
(* the steps of the two handlers interleave in any order.  Each thread     *)
(* hands at most one request to storeImage; the server runs with the       *)
(* default configuration on an upload directory without files.             *)
(***************************************************************************)
ConcurrentRequests ==
    { [method |-> "POST", uri |-> <<"/", "site1", "/", "cam7">>, ctype |-> "image/jpeg"],
      [method |-> "POST", uri |-> <<"/", "site1", "/", "cam7">>, ctype |-> "text/plain"],
      [method |-> "POST", uri |-> <<"..", "/", "..", "/", "x">>, ctype |-> "image/jpeg"] }

\* the requests in handling that storeImage is still to be called for
InFlight ==
    { w \in Workers : /\ h[w].pc # "idle"
                      /\ h[w].stores = 0
                      /\ WillStore(h[w].method, h[w].uri, h[w].ctype) }

ReceiveConcurrent(w) ==
    /\ h[w].pc = "idle"
    /\ \E req \in ConcurrentRequests :
          /\ WillStore(req.method, req.uri, req.ctype)
                => uploads + Cardinality(InFlight) < Cardinality(Workers)
          /\ h' = [h EXCEPT ![w] =
                  [Idle EXCEPT !.pc = "dispatch", !.method = req.method,
                               !.uri = req.uri, !.ctype = req.ctype,
                               !.body = MaxBody, !.unread = MaxBody,
                               !.status = HTTP_OK]]
    /\ UNCHANGED <<fsDirs, fsFiles, clock, uploadToken, uploads>>

InitConcurrent ==
    /\ h = [w \in Workers |-> Idle]
    /\ fsDirs = BaseDirs
    /\ fsFiles = [f \in {} |-> 0]
    /\ clock = Instants[1]
    /\ uploadToken = <<>>
    /\ uploads = 0

NextConcurrent ==
    \/ Tick
    \/ \E w \in Workers : ReceiveConcurrent(w) \/ Handle(w)

SpecConcurrent == InitConcurrent /\ [][NextConcurrent]_vars

(***************************************************************************)
(* SpecSegments and SpecCalendar: storeImage's lines 108-124 as a function *)
(* of the request URI resp. of the clock reading.  Init is the handler at  *)
(* line 56, about to call storeImage, for one URI resp. one instant out of *)
(* a set; the steps are those of storeImage up to the opening of the file. *)
(***************************************************************************)
\* what a request URI is made of
UriLexemes == {"/", "a", "b", "..", "%2F"}

\* the request URIs of at most MaxUriLen lexemes, without and with a query
ProbeURIs ==
    { path \o query :
        path \in UNION { [1..n -> UriLexemes] : n \in 1..MaxUriLen },
        query \in { <<>>, <<"?", "x", "=", "1">> } }

\* the handler that authorize and the content type have let pass (line 56)
AboutToStore(uri) ==
    [w \in Workers |->
        IF w = "w1"
        THEN [Idle EXCEPT !.pc = "store", !.method = "POST", !.uri = uri,
                          !.ctype = "image/jpeg", !.status = HTTP_OK,
                          !.authCalls = 1, !.auth = "accept"]
        ELSE Idle]

InitSegments ==
    /\ uploadToken = <<>>
    /\ \E uri \in ProbeURIs :
          /\ WillStore("POST", uri, "image/jpeg")
          /\ h = AboutToStore(uri)
    /\ fsDirs = BaseDirs
    /\ fsFiles = [f \in {} |-> 0]
    /\ clock = Instants[1]
    /\ uploads = 0

\* the local times of a calendar: every month, every day of a month, every
\* hour, in a year of three and in a year of four digits
CalendarInstants ==
    { DateTime(y, mo, d, hr, 7, 5, 42) :
        y \in {987, 2024}, mo \in 1..12, d \in 1..31, hr \in 0..23 }

InitCalendar ==
    /\ uploadToken = <<>>
    /\ h = AboutToStore(<<"/", "site1", "/", "cam7", "/", "x">>)
    /\ fsDirs = BaseDirs
    /\ fsFiles = [f \in {} |-> 0]
    /\ clock \in CalendarInstants
    /\ uploads = 0

NextStore == Store("w1") \/ Mkdir("w1") \/ Open("w1")

SpecSegments == InitSegments /\ [][NextStore]_vars

SpecCalendar == InitCalendar /\ [][NextStore]_vars

(***************************************************************************)
(* Vocabulary of the properties.                                           *)
(***************************************************************************)
\* handleRequest is over: it returned, or an exception left it
Terminal(r) == r.pc \in {"returned", "escaped"}

\* the request was answered with this status and message, once
Answered(r, status, message) ==
    r.sent = 1 /\ r.status = status /\ r.message = message

\* the stream of the body is at its end
Consumed(r) == r.unread = 0 \/ r.gone

\* the directories of the configured upload path
UploadDirs == MakeDirectory(ParseUnix(UploadPath)).dirs

\* the segments of the path of a URI that starts with "/"
Segments(uri) == SplitOn(Tail(RawPath(uri)), {"/"})

\* the value of the query parameter "token" of a URI, read off the query:
\* the first parameter (at the start of the query or after an "&") that is
\* named token; its value is what stands between its "=" and the next "&";
\* the empty string when there is no such parameter
TokenParameter(uri) ==
    LET q == RawQuery(uri)
        starts == { i \in 1..Len(q) : /\ q[i] = "token"
                                      /\ (i = 1 \/ q[i - 1] = "&")
                                      /\ (i = Len(q) \/ q[i + 1] \in {"=", "&"}) }
    IN  IF starts = {} THEN <<>>
        ELSE LET i == CHOOSE a \in starts : \A b \in starts : a <= b
                 stop == FirstIn(q, {"&"}, i)
             IN  IF i < Len(q) /\ q[i + 1] = "=" THEN SubSeq(q, i + 2, stop - 1)
                 ELSE <<>>

(***************************************************************************)
(* The claims.                                                             *)
(***************************************************************************)
\* C1: every request ends in exactly one response: when handleRequest is
\* over, whatever the method, the authorization, the content type and the
\* outcome of the store, a response was sent once.
C1_ExactlyOneResponse ==
    \A w \in Workers : Terminal(h[w]) => h[w].sent = 1

\* C2: for a POST (accepted, failed authorization, bad content type, error
\* path) and for a method that is not allowed, the body stream is at its end
\* when the response is sent.
C2_BodyConsumedBeforeResponse ==
    \A w \in Workers :
        h[w].sent > 0 /\ h[w].method \notin {"GET", "HEAD"} => Consumed(h[w])

\* C3: an accepted POST to /{site}/{camera}/... is stored under
\* <base>/{site}/{camera}/: the site directory is the first segment of the
\* path of the URI and the camera directory is the second.
C3_StoredUnderSiteAndCamera ==
    \A w \in Workers :
        /\ Answered(h[w], HTTP_OK, "Image accepted")
        /\ Len(Segments(h[w].uri)) >= 3
        => SubSeq(FilePath(h[w].p), 1, Len(UploadDirs) + 2)
             = UploadDirs \o << Segments(h[w].uri)[1], Segments(h[w].uri)[2] >>

\* C4: the query string has no part in the segments: for the URI of a
\* request that is stored and any URI with the same path, uploadSite gives
\* the same segment and uploadCamera gives the same segment.
C4_SegmentsIgnoreQuery ==
    \A w \in Workers : \A uri \in RequestURIs :
        /\ h[w].pc \in {"mkdir", "open", "copy", "close"}
        /\ RawPath(uri) = RawPath(h[w].uri)
        => /\ uploadSite(uri) = uploadSite(h[w].uri)
           /\ uploadCamera(uri) = uploadCamera(h[w].uri)

\* C5: a POST is answered 200 "Image accepted" only if authorize accepted,
\* the content type is exactly image/jpeg and the store completed; a POST
\* that authorize rejected is answered 400 "Missing or invalid upload token"
\* whatever its content type; a POST that authorize accepted with another
\* content type is answered 400 "Unexpected content type".
C5_PostResponses ==
    \A w \in Workers :
        /\ h[w].method = "POST" /\ Answered(h[w], HTTP_OK, "Image accepted")
           => /\ h[w].auth = "accept"
              /\ h[w].ctype = "image/jpeg"
              /\ h[w].stores = 1 /\ h[w].fault = "none" /\ h[w].unread = 0
        /\ h[w].sent > 0 /\ h[w].auth = "reject"
           => Answered(h[w], HTTP_BAD_REQUEST, "Missing or invalid upload token")
        /\ h[w].sent > 0 /\ h[w].auth = "accept" /\ h[w].ctype # "image/jpeg"
           => Answered(h[w], HTTP_BAD_REQUEST, "Unexpected content type")

\* C6: no exception leaves handleRequest.
C6_NoExceptionEscapes ==
    \A w \in Workers : h[w].pc # "escaped"

\* C7: when the creation of the directories, the creation of the file or the
\* write of the body failed, or the client disconnected during the copy, the
\* response that is sent is 500 "error uploading file" (so never 200), and
\* storeImage was called once.
C7_FailedStoreAnswered500 ==
    \A w \in Workers :
        h[w].sent > 0 /\ h[w].fault # "none"
        => /\ Answered(h[w], HTTP_INTERNAL_SERVER_ERROR, "error uploading file")
           /\ h[w].stores = 1

\* C8: authorize returns true if and only if the value of the token
\* parameter of the query (empty when absent) equals the configured token.
C8_AuthorizeIffTokenEqual ==
    \A w \in Workers :
        h[w].auth # "none"
        => (h[w].auth = "accept" <=> TokenParameter(h[w].uri) = uploadToken)

\* with the default, empty configured token a request without a token was accepted
C8_Witness ==
    \E w \in Workers :
        h[w].auth = "accept" /\ uploadToken = <<>> /\ RawQuery(h[w].uri) = <<>>

\* C9: authorize never throws: once called it has returned accept or
\* reject, and a POST whose URI cannot be parsed is answered 400, as a
\* request that failed authorization.
C9_AuthorizeNeverThrows ==
    \A w \in Workers :
        /\ h[w].authCalls > 0 /\ h[w].pc # "authorize" => h[w].auth # "none"
        /\ Terminal(h[w]) /\ h[w].method = "POST" /\ authorizeThrows(h[w].uri)
           => Answered(h[w], HTTP_BAD_REQUEST, "Missing or invalid upload token")

\* C10: a GET is answered 200 "Image upload server ready", a HEAD with
\* status 200 and no body, every method other than POST, GET and HEAD with
\* 405 "Request method not allowed"; authorize is not called for them, so
\* that neither the token nor the content type has a part in the response.
C10_MethodDispatch ==
    \A w \in Workers :
        Terminal(h[w]) /\ h[w].method # "POST"
        => /\ h[w].authCalls = 0
           /\ h[w].pc = "returned"
           /\ h[w].method = "GET"
              => Answered(h[w], HTTP_OK, "Image upload server ready")
           /\ h[w].method = "HEAD" => Answered(h[w], HTTP_OK, "")
           /\ h[w].method \notin {"GET", "HEAD"}
              => Answered(h[w], HTTP_METHOD_NOT_ALLOWED, "Request method not allowed")

\* a HEAD with a wrong token, a body and a content type that is no image
\* was answered
C10_Witness ==
    \E w \in Workers :
        /\ Terminal(h[w]) /\ h[w].method = "HEAD"
        /\ TokenParameter(h[w].uri) # uploadToken
        /\ h[w].ctype = "text/plain" /\ h[w].body > 0

\* a request the claims do not count as an accepted upload: not a POST, or a
\* POST whose token parameter is not the configured token, or a POST whose
\* content type is not image/jpeg
NotAnAcceptedUpload(r) ==
    \/ r.method # "POST"
    \/ TokenParameter(r.uri) # uploadToken
    \/ r.ctype # "image/jpeg"

\* C11: a step of the handling of a request that is not an accepted upload (a
\* POST with a wrong or missing token, a POST with another content type, a
\* GET, a HEAD, any other method) creates no directory and no file: the file
\* system after the step is the file system before it.
C11_RejectedLeaveFileSystem ==
    [][\A w \in Workers :
          (h[w].pc # "idle" /\ NotAnAcceptedUpload(h[w]) /\ h'[w] # h[w])
              => (fsDirs' = fsDirs /\ fsFiles' = fsFiles)]_vars

\* a POST with a body was rejected for its token and answered
C11_Witness ==
    \E w \in Workers :
        /\ Terminal(h[w])
        /\ h[w].method = "POST"
        /\ h[w].body > 0
        /\ h[w].auth = "reject"
        /\ Answered(h[w], HTTP_BAD_REQUEST, "Missing or invalid upload token")


\* two readings of the clock fall in the same second
SameSecond(a, b) ==
    /\ a.year = b.year /\ a.month = b.month /\ a.day = b.day
    /\ a.hour = b.hour /\ a.minute = b.minute /\ a.second = b.second

\* storeImage has put together the path of the file of this request
HasTarget(r) == r.p.name # <<>>

\* C12: however the steps of concurrently handled requests interleave, an
\* upload answered 200 "Image accepted" went through storeImage once and its
\* file exists, no call of storeImage leaves more than one file, and two
\* uploads whose instants (the readings of the clock in storeImage) do not
\* fall in the same second have different target paths.
C12_OneFilePerAcceptedUpload ==
    /\ \A w \in Workers :
          Answered(h[w], HTTP_OK, "Image accepted")
              => h[w].stores = 1 /\ IsFile(fsFiles, FilePath(h[w].p))
    /\ Cardinality(DOMAIN fsFiles) <= uploads
    /\ \A w, v \in Workers :
          (w # v /\ HasTarget(h[w]) /\ HasTarget(h[v]) /\ ~SameSecond(h[w].t, h[v].t))
              => FilePath(h[w].p) # FilePath(h[v].p)

\* two uploads of the same site and camera, received in different seconds of
\* the same hour, are both answered 200 and there are two files
C12_Witness ==
    \E w, v \in Workers :
        /\ w # v
        /\ Answered(h[w], HTTP_OK, "Image accepted")
        /\ Answered(h[v], HTTP_OK, "Image accepted")
        /\ h[w].uri = h[v].uri
        /\ h[w].t.hour = h[v].t.hour
        /\ ~SameSecond(h[w].t, h[v].t)
        /\ Cardinality(DOMAIN fsFiles) = 2

\* the path of the file of a request whose directory storeImage has put
\* together: the directory and the name made of the clock reading
TargetPath(r) == Append(r.p.dirs, FormatFileName(r.t))

\* C13: every handler has a file stream of its own: the stream of a handler
\* that copies or is about to close is open, whatever the other handler did
\* to its stream.  A target path that is there already as a file (another
\* upload of the same site and camera, with the same clock reading, has
\* created it) is no error: a handler about to open it can open it, so that
\* the collision alone leads no request to the answer 500.
C13_CollisionIsNoError ==
    \A w \in Workers :
        /\ h[w].pc \in {"copy", "close"} => h[w].open
        /\ ( /\ h[w].pc = "open"
             /\ IsFile(fsFiles, TargetPath(h[w]))
             /\ IsDirectory(fsDirs, h[w].p.dirs) )
               => ENABLED (Open(w) /\ h'[w].pc = "copy")

\* two uploads with the same target path are both answered 200 "Image
\* accepted"; there is one file
C13_Witness ==
    \E w, v \in Workers :
        /\ w # v
        /\ FilePath(h[w].p) = FilePath(h[v].p)
        /\ Answered(h[w], HTTP_OK, "Image accepted")
        /\ Answered(h[v], HTTP_OK, "Image accepted")
        /\ DOMAIN fsFiles = {FilePath(h[w].p)}

\* C14: a failure of the logger does not change the response: a POST rejected
\* for its token is answered 400 "Missing or invalid upload token", a POST
\* rejected for its content type 400 "Unexpected content type", and an upload
\* whose file was written and closed 200 "Image accepted", also when writing
\* the warning line or the line naming the stored path failed.
C14_LoggingNeverChangesResponse ==
    \A w \in Workers :
        Terminal(h[w]) =>
            /\ h[w].auth = "reject"
                 => Answered(h[w], HTTP_BAD_REQUEST, "Missing or invalid upload token")
            /\ (h[w].auth = "accept" /\ h[w].stores = 0)
                 => Answered(h[w], HTTP_BAD_REQUEST, "Unexpected content type")
            /\ (h[w].stores = 1 /\ HasTarget(h[w]) /\ ~h[w].open /\ h[w].fault = "none")
                 => Answered(h[w], HTTP_OK, "Image accepted")

\* the segments of the path of a URI (what stands before the "?", decoded),
\* read as the path of a directory
PathSegments(uri) == MakeDirectory(ParseUnix(URIDecode(RawPath(uri)))).dirs

\* C15: uploadSite returns the 2nd segment of the path of the URI when the
\* path has at least 2 segments and "defaultSite" otherwise; uploadCamera
\* returns the 3rd segment when the path has at least 3 segments and
\* "defaultCamera" otherwise; with fewer segments neither function throws.
C15_SiteAndCameraAreSegments ==
    \A w \in Workers :
        (h[w].stores = 1 /\ ~URIThrows(h[w].uri)) =>
            LET segs == PathSegments(h[w].uri) IN
            /\ h[w].pc # "catch"
            /\ h[w].site = IF Len(segs) >= 2 THEN segs[2] ELSE <<"defaultSite">>
            /\ h[w].camera = IF Len(segs) >= 3 THEN segs[3] ELSE <<"defaultCamera">>

\* C16: the creation of the directories is idempotent.  For a handler about
\* to create its target directory: the part of the hierarchy that exists
\* does not make the step fail; when the whole hierarchy exists the step
\* succeeds and changes nothing, even where mkdir itself would fail; and the
\* step run a second time succeeds and leaves the directories of the first.
C16_CreateDirectoriesIdempotent ==
    \A w \in Workers :
        h[w].pc = "mkdir" =>
            LET d == h[w].p.dirs
                once == createDirectories(fsDirs, fsFiles, d, TRUE)
            IN  /\ once.ok
                /\ IsDirectory(once.dirs, d)
                /\ \A mkdirOK \in BOOLEAN :
                      createDirectories(once.dirs, fsFiles, d, mkdirOK)
                          = [ok |-> TRUE, dirs |-> once.dirs]
                /\ IsDirectory(fsDirs, d) =>
                      \A mkdirOK \in BOOLEAN :
                          createDirectories(fsDirs, fsFiles, d, mkdirOK)
                              = [ok |-> TRUE, dirs |-> fsDirs]

\* a handler is about to create a hierarchy that another upload, whose file
\* lies in it, has created already
C16_Witness ==
    \E w, v \in Workers :
        /\ w # v
        /\ h[w].pc = "mkdir"
        /\ h[v].p.dirs = h[w].p.dirs
        /\ IsDirectory(fsDirs, h[w].p.dirs)
        /\ IsFile(fsFiles, FilePath(h[v].p))

\* the digits, and the number a sequence of digits denotes
Digits == { Digit(d) : d \in 0..9 }

DigitValue(c) == CHOOSE d \in 0..9 : Digit(d) = c

RECURSIVE DecimalValue(_)
DecimalValue(s) ==
    IF s = <<>> THEN 0
    ELSE 10 * DecimalValue(SubSeq(s, 1, Len(s) - 1)) + DigitValue(s[Len(s)])

IsNumeral(s) == s # <<>> /\ \A i \in 1..Len(s) : s[i] \in Digits

\* a numeral of exactly two digits that denotes n
TwoDigitsOf(s, n) == IsNumeral(s) /\ Len(s) = 2 /\ DecimalValue(s) = n

\* C17: the path of the file is the upload directory followed by site,
\* camera, year, month, day, hour and the file name, in this order; month,
\* day and hour are numerals of exactly two digits (month 3 is "03"), the
\* year is the numeral of the year without padding.
C17_PathLayoutAndPadding ==
    \A w \in Workers :
        HasTarget(h[w]) =>
            LET f == FilePath(h[w].p)
                n == Len(UploadDirs)
                t == h[w].t
            IN  /\ Len(f) = n + 7
                /\ SubSeq(f, 1, n) = UploadDirs
                /\ f[n + 1] = h[w].site
                /\ f[n + 2] = h[w].camera
                /\ IsNumeral(f[n + 3]) /\ DecimalValue(f[n + 3]) = t.year
                /\ f[n + 3][1] # "0"
                /\ TwoDigitsOf(f[n + 4], t.month)
                /\ TwoDigitsOf(f[n + 5], t.day)
                /\ TwoDigitsOf(f[n + 6], t.hour)
                /\ f[n + 7] = FormatFileName(t)

\* an upload of the 3rd month, 9th day, 7th hour of the year 987: the
\* directories are 987, 03, 09, 07
C17_Witness ==
    \E w \in Workers :
        /\ HasTarget(h[w])
        /\ h[w].open
        /\ h[w].t.year = 987 /\ h[w].t.month = 3 /\ h[w].t.day = 9 /\ h[w].t.hour = 7
        /\ SubSeq(h[w].p.dirs, Len(UploadDirs) + 3, Len(UploadDirs) + 6)
               = << <<"9", "8", "7">>, <<"0", "3">>, <<"0", "9">>, <<"0", "7">> >>

\* C18: an upload is answered 200 "Image accepted" only after all the steps
\* before it: the directories are there, the file is there and its stream is
\* closed, the whole body was read and copied into the file, and the line
\* naming the stored path is logged; no response is sent while the file is
\* open.
C18_AcceptedAfterAllSteps ==
    \A w \in Workers :
        /\ h[w].open => h[w].sent = 0
        /\ Answered(h[w], HTTP_OK, "Image accepted") =>
              /\ IsDirectory(fsDirs, h[w].p.dirs)
              /\ IsFile(fsFiles, FilePath(h[w].p))
              /\ ~h[w].open
              /\ h[w].unread = 0
              /\ fsFiles[FilePath(h[w].p)] = h[w].body
              /\ "stored" \in h[w].logs

\* C19: the file name and the directories are made of one reading of the
\* clock: year, month, day and hour at the start of the file name
\* (YYYYMMDD-HH...) are those of the four directories the file lies in, also
\* when the hour, the day or the year changes while the request is handled.
C19_NameAgreesWithDirectories ==
    \A w \in Workers :
        HasTarget(h[w]) =>
            LET d == h[w].p.dirs
                k == Len(d)
                name == h[w].p.name
            IN  /\ DecimalValue(SubSeq(name, 1, 4)) = DecimalValue(d[k - 3])
                /\ SubSeq(name, 5, 6) = d[k - 2]
                /\ SubSeq(name, 7, 8) = d[k - 1]
                /\ SubSeq(name, 10, 11) = d[k]

\* the file of an upload received in the last second of a year is there, and
\* the clock is in the next year
C19_Witness ==
    \E w \in Workers :
        /\ HasTarget(h[w])
        /\ IsFile(fsFiles, FilePath(h[w].p))
        /\ h[w].pc = "copy"
        /\ h[w].t.year = 2024
        /\ clock.year = 2025

\* the name of one directory: not empty, not "." or "..", without a "/"
IsPlainName(s) ==
    /\ s \notin { <<>>, <<".">>, <<"..">> }
    /\ \A i \in 1..Len(s) : s[i] # "/"

\* C20: every file a handler writes lies inside the configured upload
\* directory: its path is the upload directory, six directories (site,
\* camera, year, month, day, hour) and the file name, and the site and the
\* camera it was stored for are plain names, whatever the request URI.
C20_FilesInsideUploadDirectory ==
    /\ \A f \in DOMAIN fsFiles :
          /\ Len(f) = Len(UploadDirs) + 7
          /\ SubSeq(f, 1, Len(UploadDirs)) = UploadDirs
    /\ \A w \in Workers :
          (HasTarget(h[w]) /\ IsFile(fsFiles, FilePath(h[w].p)))
              => IsPlainName(h[w].site) /\ IsPlainName(h[w].camera)

====
